---- MODULE Spec2Model ----
(***************************************************************************)
(* Model of scripts/expand_rule_sets.py: the expansion of RULE-SET and     *)
(* DOMAIN-SET references of the .list files of custom/ into flat rule      *)
(* files under output/.                                                    *)
(*                                                                         *)
(* A text (a line, a rule, a url) is a sequence of atoms.  An atom is an   *)
(* indivisible piece of text: the delimiter ",", the blank " ", the        *)
(* comment mark "#", the colon ":", a digit, or a word the script never    *)
(* looks inside.  Two texts are equal iff their atom sequences are equal;  *)
(* a word occurs inside a text iff it is one of its atoms, whether it      *)
(* stands alone between two delimiters or is glued to other atoms of a     *)
(* field.                                                                  *)
(***************************************************************************)
EXTENDS Integers, Sequences, FiniteSets, TLC

VARIABLES
    pc,               \* position of main / process_list_file
    outExists,        \* output_dir.exists()
    outFiles,         \* files of output/: file name -> content (sequence of written units)
    customExists,     \* custom_dir.exists()
    custom,           \* files of custom/: file name -> sequence of raw lines
    list_files,       \* main: sorted(custom_dir.glob("*.list"))
    file_idx,         \* main: position of the for loop in list_files
    success_count,    \* main: success_count
    line_num,         \* process_list_file: number of lines read so far
    all_rules,        \* process_list_file: all_rules
    rule_set_count,   \* process_list_file: rule_set_count
    domain_set_count, \* process_list_file: domain_set_count
    rule_set_info,    \* process_list_file: rule_set_info
    ret,              \* process_list_file: returned value ("none" until it returns)
    fetched,          \* what requests.get answered for each line read so far
    ioLog,            \* per call of process_list_file: the file, how reading and
                      \* writing ended, the content it meant to write
    clears,           \* per removal-and-recreation of output/: the files it removed
    summary,          \* main: the final "success_count/len(list_files)" message
    fn_arg,           \* argument of the function under test (function specifications)
    fn_ret            \* its successive results

vars == <<pc, outExists, outFiles, customExists, custom, list_files, file_idx,
          success_count, line_num, all_rules, rule_set_count, domain_set_count,
          rule_set_info, ret, fetched, ioLog, clears, summary, fn_arg, fn_ret>>

(***************************************************************************)
(* Bounds of the model.                                                    *)
(***************************************************************************)
MaxLines == 3
MaxFiles == 2
MaxFields == 3
MaxDocLines == 2

BoundedSeq(S, n) == UNION {[1..k -> S] : k \in 0..n}

(***************************************************************************)
(* Text primitives (Python str methods).                                   *)
(***************************************************************************)
IsSpace(a) == a = " "

\* str.lower(), atom by atom
LowerAtom(a) ==
    CASE a = "NO-RESOLVE" -> "no-resolve"
      [] a = "No-Resolve" -> "no-resolve"
      [] a = "PROXY" -> "proxy"
      [] a = "DIRECT" -> "direct"
      [] a = "CN" -> "cn"
      [] a = "FINAL" -> "final"
      [] a = "DOMAIN" -> "domain"
      [] a = "DOMAIN-SUFFIX" -> "domain-suffix"
      [] a = "DOMAIN-KEYWORD" -> "domain-keyword"
      [] a = "DOMAIN-SET" -> "domain-set"
      [] a = "RULE-SET" -> "rule-set"
      [] a = "IP-CIDR" -> "ip-cidr"
      [] a = "IP-CIDR6" -> "ip-cidr6"
      [] a = "GEOIP" -> "geoip"
      [] a = "IP-ASN" -> "ip-asn"
      [] a = "PROCESS-NAME" -> "process-name"
      [] a = "Total" -> "total"
      [] a = "TOTAL" -> "total"
      [] OTHER -> a

lower(s) == [i \in DOMAIN s |-> LowerAtom(s[i])]

\* "w in s" for a word w
Contains(s, w) == \E i \in DOMAIN s : s[i] = w

\* "w1w2 in s" for two adjacent atoms
ContainsPair(s, w1, w2) == \E i \in 1..(Len(s) - 1) : s[i] = w1 /\ s[i + 1] = w2

startswith(s, p) == Len(s) >= Len(p) /\ SubSeq(s, 1, Len(p)) = p

\* str.strip()
strip(s) ==
    LET keep == {i \in DOMAIN s : ~IsSpace(s[i])}
    IN  IF keep = {} THEN <<>>
        ELSE LET lo == CHOOSE i \in keep : \A j \in keep : i <= j
                 hi == CHOOSE i \in keep : \A j \in keep : j <= i
             IN  SubSeq(s, lo, hi)

\* str.split(','): always at least one part
RECURSIVE split(_)
split(s) ==
    IF ~Contains(s, ",") THEN <<s>>
    ELSE LET c == CHOOSE i \in DOMAIN s : s[i] = "," /\ \A j \in 1..(i - 1) : s[j] # ","
         IN  <<SubSeq(s, 1, c - 1)>> \o split(SubSeq(s, c + 1, Len(s)))

\* str.split(':')
RECURSIVE splitColon(_)
splitColon(s) ==
    IF ~Contains(s, ":") THEN <<s>>
    ELSE LET c == CHOOSE i \in DOMAIN s : s[i] = ":" /\ \A j \in 1..(i - 1) : s[j] # ":"
         IN  <<SubSeq(s, 1, c - 1)>> \o splitColon(SubSeq(s, c + 1, Len(s)))

Digits == {"0", "1", "2", "3", "4", "5", "6", "7", "8", "9"}

DigitVal(d) ==
    CASE d = "0" -> 0 [] d = "1" -> 1 [] d = "2" -> 2 [] d = "3" -> 3 [] d = "4" -> 4
      [] d = "5" -> 5 [] d = "6" -> 6 [] d = "7" -> 7 [] d = "8" -> 8 [] d = "9" -> 9

\* int(s) succeeds
IsInt(s) == Len(s) > 0 /\ \A i \in DOMAIN s : s[i] \in Digits

\* int(s)
RECURSIVE int(_)
int(s) == IF Len(s) = 0 THEN 0 ELSE 10 * int(SubSeq(s, 1, Len(s) - 1)) + DigitVal(s[Len(s)])

(***************************************************************************)
(* The functions of the script.                                            *)
(***************************************************************************)
no_resolve_types == {<<"IP-CIDR">>, <<"IP-CIDR6">>, <<"GEOIP">>, <<"IP-ASN">>}

\* add_no_resolve with the test for an existing no-resolve made on the rule as
\* written instead of on rule.lower()
add_no_resolve_case_sensitive(rule) ==
    IF rule = <<>> \/ ~Contains(rule, ",") THEN rule
    ELSE IF strip(split(rule)[1]) \in no_resolve_types /\ ~Contains(rule, "no-resolve")
         THEN rule \o <<",", "no-resolve">>
         ELSE rule

\* add_no_resolve(rule)
add_no_resolve(rule) ==
    IF rule = <<>> \/ ~Contains(rule, ",") THEN rule
    ELSE LET parts == split(rule)
             rule_type == strip(parts[1])
         IN  IF rule_type \in no_resolve_types /\ ~Contains(lower(rule), "no-resolve")
             THEN rule \o <<",", "no-resolve">>
             ELSE rule

\* convert_to_domain_rule(line, rule_type); None is modelled as the empty text,
\* which the only caller cannot tell from it ("if converted_line:")
convert_to_domain_rule(line0, rule_type) ==
    LET line == strip(line0)
    IN  IF rule_type = "DOMAIN-SET"
        THEN IF line = <<>> \/ startswith(line, <<"#">>) THEN <<>>
             ELSE IF Contains(line, ",") THEN line
             ELSE <<"DOMAIN-SUFFIX", ",">> \o line
        ELSE line

\* the "# Total:" / "# TOTAL:" test of download_remote_rules
IsTotalComment(line) ==
    \/ startswith(line, <<"#">>) /\ ContainsPair(line, "Total", ":")
    \/ startswith(line, <<"#">>) /\ ContainsPair(line, "TOTAL", ":")

\* the value original_total has after the line is scanned
ScanTotal(line, original_total) ==
    IF IsTotalComment(line)
    THEN LET parts == splitColon(line)
             last == strip(parts[Len(parts)])
         IN  IF Len(parts) >= 2 /\ IsInt(last) THEN int(last) ELSE original_total
    ELSE original_total

\* KeepLine without the call of add_no_resolve on the lines of a RULE-SET
KeepLine_unannotated(line, rule_type) ==
    IF line = <<>> \/ startswith(line, <<"#">>) THEN <<>>
    ELSE IF rule_type = "DOMAIN-SET"
         THEN <<convert_to_domain_rule(line, rule_type)>>
         ELSE <<line>>

\* KeepLine with add_no_resolve applied to the lines of a DOMAIN-SET as well
KeepLine_annotates_domain_set(line, rule_type) ==
    IF line = <<>> \/ startswith(line, <<"#">>) THEN <<>>
    ELSE IF rule_type = "DOMAIN-SET"
         THEN <<add_no_resolve(convert_to_domain_rule(line, rule_type))>>
         ELSE <<add_no_resolve(line)>>

\* the rules one fetched line adds to the list
KeepLine(line, rule_type) ==
    IF line = <<>> \/ startswith(line, <<"#">>) THEN <<>>
    ELSE IF rule_type = "DOMAIN-SET"
         THEN LET converted_line == convert_to_domain_rule(line, rule_type)
              IN  IF converted_line # <<>> THEN <<converted_line>> ELSE <<>>
         ELSE <<add_no_resolve(line)>>

\* the loop of download_remote_rules over response.text.splitlines()
RECURSIVE ScanLines(_, _, _, _)
ScanLines(text, rule_type, rules, original_total) ==
    IF text = <<>> THEN [rules |-> rules, original_total |-> original_total]
    ELSE LET line == strip(Head(text))
         IN  ScanLines(Tail(text), rule_type, rules \o KeepLine(line, rule_type),
                       ScanTotal(line, original_total))

\* download_remote_rules(url, rule_type), given what requests.get answers for url:
\* [ok |-> the request succeeded with a 2xx status, text |-> the lines of the body]
download_remote_rules(response, rule_type) ==
    IF response.ok
    THEN ScanLines(response.text, rule_type, <<>>, 0)
    ELSE [rules |-> <<>>, original_total |-> 0]

\* the key get_rule_statistics counts a rule under (<<>>: the rule is not counted)
StatKey(rule) ==
    IF Contains(rule, ",") THEN strip(split(rule)[1])
    ELSE IF strip(rule) # <<>> THEN <<"OTHER">>
    ELSE <<>>

\* get_rule_statistics(rules)
get_rule_statistics(rules) ==
    LET counted == {i \in DOMAIN rules : Contains(rules[i], ",") \/ strip(rules[i]) # <<>>}
        keys == {StatKey(rules[i]) : i \in counted}
    IN  [k \in keys |-> Cardinality({i \in counted : StatKey(rules[i]) = k})]

order == << <<"DOMAIN">>, <<"DOMAIN-KEYWORD">>, <<"DOMAIN-SUFFIX">>, <<"IP-CIDR">>,
            <<"IP-CIDR6">>, <<"PROCESS-NAME">>, <<"USER-AGENT">>, <<"GEOIP">>,
            <<"DOMAIN-SET">>, <<"URL-REGEX">>, <<"AND">>, <<"OR">>, <<"NOT">> >>

InOrder(k) == \E i \in DOMAIN order : order[i] = k

\* one "#   idx. url" / "#      Downloaded: ..." pair of the header
SourceEntry(idx, info) ==
    [idx |-> idx, url |-> info.url, downloaded |-> info.count,
     with_total |-> info.original_total > 0,
     source_total |-> IF info.original_total > 0 THEN info.original_total ELSE 0]

\* format_header_comment(filename, stats, total, rule_set_info).  The header is kept
\* as its parts: the name line, the source entries, the statistics lines of the
\* predefined order (in that order), the remaining statistics lines (the source
\* sorts them by text; their order is not modelled) and the total line.  The
\* "# Updated:" line carries the clock and is left out.
format_header_comment(filename, stats, total, info) ==
    LET present(k) == k \in DOMAIN stats
    IN  [name |-> filename,
         sources |-> [i \in DOMAIN info |-> SourceEntry(i, info[i])],
         ordered |-> [i \in DOMAIN SelectSeq(order, present) |->
                        <<SelectSeq(order, present)[i], stats[SelectSeq(order, present)[i]]>>],
         others |-> {<<k, stats[k]>> : k \in {x \in DOMAIN stats : ~InOrder(x)}},
         total |-> total]

\* literal_rules with the policy dropped from DOMAIN lines only
literal_rules_domain_only(original_line) ==
    IF Contains(original_line, ",")
    THEN LET parts == split(original_line)
         IN  IF parts[1] = <<"DOMAIN">>
             THEN <<add_no_resolve(parts[1] \o <<",">> \o parts[2])>>
             ELSE <<add_no_resolve(original_line)>>
    ELSE <<>>

\* the rules a literal (non-reference) line adds to all_rules: lines 342-368
literal_rules(original_line) ==
    IF Contains(original_line, ",")
    THEN LET parts == split(original_line)
             rule_type == parts[1]
             processed_rule ==
                 IF rule_type \in {<<"DOMAIN">>, <<"DOMAIN-SUFFIX">>, <<"DOMAIN-KEYWORD">>}
                 THEN parts[1] \o <<",">> \o parts[2]
                 ELSE IF rule_type = <<"DOMAIN-SET">>
                 THEN parts[1] \o <<",">> \o parts[2]
                 ELSE original_line
         IN  <<add_no_resolve(processed_rule)>>
    ELSE <<>>

\* one entry of rule_set_info
InfoEntry(url, downloaded) ==
    [url |-> url, count |-> Len(downloaded.rules), original_total |-> downloaded.original_total]

\* process_line without the test "if downloaded_rules:": a reference is counted and
\* recorded whatever its download gave
process_line_counts_empty(raw, response) ==
    LET original_line == strip(raw)
        nothing == [rules |-> <<>>, rs |-> 0, ds |-> 0, info |-> <<>>]
    IN  IF original_line = <<>> \/ startswith(original_line, <<"#">>) THEN nothing
        ELSE IF startswith(original_line, <<"RULE-SET", ",">>)
        THEN LET downloaded == download_remote_rules(response, "RULE-SET")
             IN  [rules |-> downloaded.rules, rs |-> 1, ds |-> 0,
                  info |-> <<InfoEntry(split(original_line)[2], downloaded)>>]
        ELSE IF startswith(original_line, <<"DOMAIN-SET", ",">>)
        THEN LET downloaded == download_remote_rules(response, "DOMAIN-SET")
             IN  [rules |-> downloaded.rules, rs |-> 0, ds |-> 1,
                  info |-> <<InfoEntry(split(original_line)[2], downloaded)>>]
        ELSE [rules |-> literal_rules(original_line), rs |-> 0, ds |-> 0, info |-> <<>>]

\* what reading one line does to the locals of process_list_file (lines 297-369),
\* given the answer of requests.get should the line be a reference:
\* the rules added, the increments of the two counters, the entries added to
\* rule_set_info
process_line(raw, response) ==
    LET original_line == strip(raw)
        nothing == [rules |-> <<>>, rs |-> 0, ds |-> 0, info |-> <<>>]
    IN  IF original_line = <<>> \/ startswith(original_line, <<"#">>) THEN nothing
        ELSE IF startswith(original_line, <<"RULE-SET", ",">>)
        THEN LET parts == split(original_line)
                 url == parts[2]
                 downloaded == download_remote_rules(response, "RULE-SET")
             IN  IF Len(parts) >= 2 /\ downloaded.rules # <<>>
                 THEN [rules |-> downloaded.rules, rs |-> 1, ds |-> 0,
                       info |-> <<InfoEntry(url, downloaded)>>]
                 ELSE nothing
        ELSE IF startswith(original_line, <<"DOMAIN-SET", ",">>)
        THEN LET parts == split(original_line)
                 url == parts[2]
                 downloaded == download_remote_rules(response, "DOMAIN-SET")
             IN  IF Len(parts) >= 2 /\ downloaded.rules # <<>>
                 THEN [rules |-> downloaded.rules, rs |-> 0, ds |-> 1,
                       info |-> <<InfoEntry(url, downloaded)>>]
                 ELSE nothing
        ELSE [rules |-> literal_rules(original_line), rs |-> 0, ds |-> 0, info |-> <<>>]

\* the line makes process_list_file call download_remote_rules
IsReference(raw) ==
    \/ startswith(strip(raw), <<"RULE-SET", ",">>)
    \/ startswith(strip(raw), <<"DOMAIN-SET", ",">>)

(***************************************************************************)
(* The environment: the files of custom/ and output/, and the web.         *)
(***************************************************************************)
Url1 == <<"https://example.test/rules.list">>
Url2 == <<"https://example.test/domains.txt">>

\* the document behind Url1
Doc1 == << <<"#", " ", "Total", ":", " ", "2">>,
           <<"IP-CIDR", ",", "10.0.0.0/8", ",", "PROXY">>,
           <<"DOMAIN", ",", "foo.com", ",", "PROXY">> >>

\* the document behind Url2
Doc2 == << <<"#", " ", "domains">>,
           <<" ", "bar.com">>,
           <<"IP-CIDR", ",", "1.1.1.1/32">> >>

NoFetch == [asked |-> FALSE, ok |-> FALSE, text |-> <<>>]
FetchFailed == [asked |-> TRUE, ok |-> FALSE, text |-> <<>>]
FetchOk(doc) == [asked |-> TRUE, ok |-> TRUE, text |-> doc]

\* what requests.get(url, timeout=30) followed by raise_for_status() may give:
\* a failure (timeout, transport error, non-2xx status) or the document behind url
Responses(url) ==
    {FetchFailed} \cup (IF url = Url1 THEN {FetchOk(Doc1)}
                        ELSE IF url = Url2 THEN {FetchOk(Doc2)}
                        ELSE {})

\* the url a reference line names
UrlOf(raw) == split(strip(raw))[2]

\* file names are <<stem, extension>>
Stems == <<"a", "b", "c", "d">>
ListName(i) == <<Stems[i], "list">>
StemRank(name) == CHOOSE i \in DOMAIN Stems : Stems[i] = name[1]

\* custom_dir.glob("*.list")
glob(dir) == {n \in DOMAIN dir : n[2] = "list"}

\* sorted(...) of a set of .list names
RECURSIVE sorted(_)
sorted(S) ==
    IF S = {} THEN <<>>
    ELSE LET m == CHOOSE n \in S : \A o \in S : StemRank(n) <= StemRank(o)
         IN  <<m>> \o sorted(S \ {m})

\* a file of output/ left by an earlier run
StaleFile == [stale |-> TRUE, header |-> <<>>, body |-> <<>>]

\* the lines of the input files of the main specification
Lines ==
    { <<"DOMAIN", ",", "example.com", ",", "PROXY">>,
      <<"RULE-SET", ",">> \o Url1 \o <<",", "PROXY">>,
      <<"DOMAIN-SET", ",">> \o Url2,
      <<" ", "FINAL", " ">>,
      <<"IP-CIDR", ",", "10.0.0.0/8", ",", "PROXY">>,
      <<"GEOIP", ",", "CN", ",", "PROXY", ",", "no-resolve">>,
      <<"RULE-SET", ",">> \o Url2,
      <<"#", "DOMAIN", ",", "commented.com">> }

\* a line "kind,field,...,field" behind the blanks of lead
RECURSIVE JoinFields(_)
JoinFields(fields) ==
    IF fields = <<>> THEN <<>> ELSE <<",">> \o Head(fields) \o JoinFields(Tail(fields))

MkLine(lead, kind, fields) == lead \o kind \o JoinFields(fields)

Leads == {<<>>, <<" ">>}

LineKinds ==
    { <<"DOMAIN">>, <<"DOMAIN-SUFFIX">>, <<"DOMAIN-KEYWORD">>, <<"DOMAIN", " ">>,
      <<"IP-CIDR">>, <<"PROCESS-NAME">>, <<"RULE-SET">>, <<"DOMAIN-SET">> }

LineFields == {<<>>, <<"example.com">>, <<"PROXY">>, Url1}

\* the lines of the one-line input files of SpecLine
RichLines ==
    {MkLine(lead, kind, fields) :
        lead \in Leads, kind \in LineKinds, fields \in BoundedSeq(LineFields, MaxFields)}

\* the input files of SpecMain
E2EFile == << <<"DOMAIN", ",", "example.com", ",", "PROXY">>,
              <<"RULE-SET", ",">> \o Url1 \o <<",", "PROXY">> >>

SampleFiles == {E2EFile, << <<"FINAL">>, <<"DOMAIN-SET", ",">> \o Url2 >>}

\* the rules add_no_resolve is applied to in SpecNoResolve
RuleKinds ==
    { <<"IP-CIDR">>, <<"IP-CIDR6">>, <<"GEOIP">>, <<"IP-ASN">>, <<"IP-CIDR", " ">>,
      <<"DOMAIN">>, <<"IP-CIDR", "x">>, <<"ip-cidr">> }

RuleFields ==
    { <<>>, <<"10.0.0.0/8">>, <<"PROXY">>, <<"no-resolve">>, <<"NO-RESOLVE">>,
      <<"No-Resolve">>, <<"x", "no-resolve">> }

Rules ==
    {MkLine(lead, kind, fields) :
        lead \in Leads, kind \in RuleKinds, fields \in BoundedSeq(RuleFields, MaxFields)}

\* the lines of the documents download_remote_rules is applied to in SpecDownload
DocLines ==
    { <<"bar.com">>, <<" ", "baz.org", " ">>, <<"IP-CIDR", ",", "1.1.1.1/32">>,
      <<" ", "DOMAIN", ",", "foo.com", ",", "PROXY", " ">>, <<"#", " ", "note">>,
      <<" ">>, <<"#", " ", "Total", ":", " ", "4", "2">>,
      <<"#", "TOTAL", ":", "7", " ", "rules">> }

\* the directories before the run: custom/ missing, or holding the files dir;
\* output/ missing, or holding stale files
InitDirs(dirs, stales) ==
    /\ customExists \in BOOLEAN
    /\ custom \in (IF customExists THEN dirs ELSE {<<>>})
    /\ outExists \in BOOLEAN
    /\ outFiles \in (IF outExists THEN {[n \in S |-> StaleFile] : S \in stales} ELSE {<<>>})

InitLocals ==
    /\ list_files = <<>>
    /\ file_idx = 0
    /\ success_count = 0
    /\ line_num = 0
    /\ all_rules = <<>>
    /\ rule_set_count = 0
    /\ domain_set_count = 0
    /\ rule_set_info = <<>>
    /\ ret = "none"
    /\ fetched = <<>>
    /\ ioLog = <<>>
    /\ clears = <<>>
    /\ summary = <<>>
    /\ fn_arg = <<>>
    /\ fn_ret = <<>>

\* one input file of at most MaxLines lines
Init ==
    /\ pc = "start"
    /\ InitDirs({<<>>} \cup {[n \in {ListName(1)} |-> c] : c \in BoundedSeq(Lines, MaxLines)},
                {{}, {ListName(1)}})
    /\ InitLocals

\* one input file of one line
InitLine ==
    /\ pc = "start"
    /\ InitDirs({<<>>} \cup {[n \in {ListName(1)} |-> <<l>>] : l \in RichLines},
                {{}, {ListName(1)}})
    /\ InitLocals

\* at most MaxFiles input files among the sample files, beside a file that is no
\* .list file
InitMain ==
    /\ pc = "start"
    /\ InitDirs(UNION {[S \cup T -> SampleFiles] :
                         S \in SUBSET {ListName(i) : i \in 1..MaxFiles},
                         T \in {{}, {<<"notes", "txt">>}}},
                {{}, {ListName(1)}, {<<"old", "list">>}})
    /\ InitLocals

(***************************************************************************)
(* main and process_list_file.                                             *)
(***************************************************************************)
input_file == list_files[file_idx]
output_file == list_files[file_idx]

\* the header + '\n\n' that process_list_file writes first (lines 381-389)
Header ==
    format_header_comment(output_file[1], get_rule_statistics(all_rules), Len(all_rules),
                          rule_set_info)

\* everything process_list_file writes when no write fails (lines 387-393)
Complete == [stale |-> FALSE, header |-> <<Header>>, body |-> all_rules]

\* the entry of ioLog for the call that returns
Logged(read, write) ==
    [file |-> input_file, read |-> read, write |-> write,
     intended |-> IF read = "ok" THEN <<Complete>> ELSE <<>>]

\* ClearOutput with the mkdir alone: what output/ holds is kept
ClearOutput_keeps_files ==
    /\ pc = "start"
    /\ outExists' = TRUE
    /\ clears' = Append(clears, {})
    /\ pc' = "cleared"
    /\ UNCHANGED <<outFiles, customExists, custom, list_files, file_idx, success_count,
                   line_num, all_rules, rule_set_count, domain_set_count, rule_set_info,
                   ret, fetched, ioLog, summary, fn_arg, fn_ret>>

\* main, lines 433-441: shutil.rmtree(output_dir) if it exists, then mkdir
ClearOutput ==
    /\ pc = "start"
    /\ outExists' = TRUE
    /\ outFiles' = <<>>
    /\ clears' = Append(clears, DOMAIN outFiles)
    /\ pc' = "cleared"
    /\ UNCHANGED <<customExists, custom, list_files, file_idx, success_count, line_num,
                   all_rules, rule_set_count, domain_set_count, rule_set_info, ret,
                   fetched, ioLog, summary, fn_arg, fn_ret>>

\* main, lines 444-446: the input directory is missing
InputMissing ==
    /\ pc = "cleared"
    /\ ~customExists
    /\ pc' = "done"
    /\ UNCHANGED <<outExists, outFiles, customExists, custom, list_files, file_idx,
                   success_count, line_num, all_rules, rule_set_count, domain_set_count,
                   rule_set_info, ret, fetched, ioLog, clears, summary, fn_arg, fn_ret>>

\* main, lines 449-453: no .list file
InputEmpty ==
    /\ pc = "cleared"
    /\ customExists
    /\ glob(custom) = {}
    /\ pc' = "done"
    /\ UNCHANGED <<outExists, outFiles, customExists, custom, list_files, file_idx,
                   success_count, line_num, all_rules, rule_set_count, domain_set_count,
                   rule_set_info, ret, fetched, ioLog, clears, summary, fn_arg, fn_ret>>

\* main, lines 449-458
FindFiles ==
    /\ pc = "cleared"
    /\ customExists
    /\ glob(custom) # {}
    /\ list_files' = sorted(glob(custom))
    /\ file_idx' = 1
    /\ success_count' = 0
    /\ pc' = "loop"
    /\ UNCHANGED <<outExists, outFiles, customExists, custom, line_num, all_rules,
                   rule_set_count, domain_set_count, rule_set_info, ret, fetched, ioLog,
                   clears, summary, fn_arg, fn_ret>>

\* main, lines 459-461, and process_list_file, lines 286-292
StartFile ==
    /\ pc = "loop"
    /\ file_idx <= Len(list_files)
    /\ all_rules' = <<>>
    /\ rule_set_count' = 0
    /\ domain_set_count' = 0
    /\ rule_set_info' = <<>>
    /\ line_num' = 0
    /\ fetched' = <<>>
    /\ ret' = "none"
    /\ pc' = "reading"
    /\ UNCHANGED <<outExists, outFiles, customExists, custom, list_files, file_idx,
                   success_count, ioLog, clears, summary, fn_arg, fn_ret>>

\* process_list_file, lines 296-369: one iteration of the loop over the lines
ReadLine ==
    /\ pc = "reading"
    /\ line_num < Len(custom[input_file])
    /\ LET raw == custom[input_file][line_num + 1]
       IN  \E response \in (IF IsReference(raw) THEN Responses(UrlOf(raw)) ELSE {NoFetch}) :
             LET did == process_line(raw, response)
             IN  /\ all_rules' = all_rules \o did.rules
                 /\ rule_set_count' = rule_set_count + did.rs
                 /\ domain_set_count' = domain_set_count + did.ds
                 /\ rule_set_info' = rule_set_info \o did.info
                 /\ fetched' = Append(fetched, response)
    /\ line_num' = line_num + 1
    /\ UNCHANGED <<pc, outExists, outFiles, customExists, custom, list_files, file_idx,
                   success_count, ret, ioLog, clears, summary, fn_arg, fn_ret>>

\* process_list_file, lines 294-296 and 371-373: open() or the decoding of a later
\* part of the file raises
ReadFail ==
    /\ pc = "reading"
    /\ ret' = "False"
    /\ ioLog' = Append(ioLog, Logged("failed", "none"))
    /\ pc' = "returned"
    /\ UNCHANGED <<outExists, outFiles, customExists, custom, list_files, file_idx,
                   success_count, line_num, all_rules, rule_set_count, domain_set_count,
                   rule_set_info, fetched, clears, summary, fn_arg, fn_ret>>

\* WriteOk with the last rule never written
WriteOk_drops_last_rule ==
    /\ pc = "reading"
    /\ line_num = Len(custom[input_file])
    /\ outFiles' = [n \in DOMAIN outFiles \cup {output_file} |->
                      IF n = output_file
                      THEN [stale |-> FALSE, header |-> <<Header>>,
                            body |-> SubSeq(all_rules, 1, Len(all_rules) - 1)]
                      ELSE outFiles[n]]
    /\ ret' = "True"
    /\ ioLog' = Append(ioLog, Logged("ok", "ok"))
    /\ pc' = "returned"
    /\ UNCHANGED <<outExists, customExists, custom, list_files, file_idx, success_count,
                   line_num, all_rules, rule_set_count, domain_set_count, rule_set_info,
                   fetched, clears, summary, fn_arg, fn_ret>>

\* process_list_file, lines 376-405: every write succeeds
WriteOk ==
    /\ pc = "reading"
    /\ line_num = Len(custom[input_file])
    /\ outFiles' = [n \in DOMAIN outFiles \cup {output_file} |->
                      IF n = output_file THEN Complete ELSE outFiles[n]]
    /\ ret' = "True"
    /\ ioLog' = Append(ioLog, Logged("ok", "ok"))
    /\ pc' = "returned"
    /\ UNCHANGED <<outExists, customExists, custom, list_files, file_idx, success_count,
                   line_num, all_rules, rule_set_count, domain_set_count, rule_set_info,
                   fetched, clears, summary, fn_arg, fn_ret>>

\* process_list_file, lines 376-387 and 407-409: open(output_file, 'w') raises and
\* creates nothing
WriteFailOpen ==
    /\ pc = "reading"
    /\ line_num = Len(custom[input_file])
    /\ ret' = "False"
    /\ ioLog' = Append(ioLog, Logged("ok", "failed"))
    /\ pc' = "returned"
    /\ UNCHANGED <<outExists, outFiles, customExists, custom, list_files, file_idx,
                   success_count, line_num, all_rules, rule_set_count, domain_set_count,
                   rule_set_info, fetched, clears, summary, fn_arg, fn_ret>>

\* process_list_file, lines 387-393 and 407-409: the file is created, a write (or the
\* flush at close) raises; the header and the first k rules, or nothing if the header
\* itself was not written, stay in the file
WriteFailPartial ==
    /\ pc = "reading"
    /\ line_num = Len(custom[input_file])
    /\ \E h \in BOOLEAN : \E k \in 0..Len(all_rules) :
         /\ ~h => k = 0
         /\ outFiles' = [n \in DOMAIN outFiles \cup {output_file} |->
                           IF n = output_file
                           THEN [stale |-> FALSE,
                                 header |-> IF h THEN <<Header>> ELSE <<>>,
                                 body |-> SubSeq(all_rules, 1, k)]
                           ELSE outFiles[n]]
    /\ ret' = "False"
    /\ ioLog' = Append(ioLog, Logged("ok", "failed"))
    /\ pc' = "returned"
    /\ UNCHANGED <<outExists, customExists, custom, list_files, file_idx, success_count,
                   line_num, all_rules, rule_set_count, domain_set_count, rule_set_info,
                   fetched, clears, summary, fn_arg, fn_ret>>

\* NextFile with the loop left at the first file that failed
NextFile_stops_on_failure ==
    /\ pc = "returned"
    /\ success_count' = IF ret = "True" THEN success_count + 1 ELSE success_count
    /\ file_idx' = IF ret = "True" THEN file_idx + 1 ELSE Len(list_files) + 1
    /\ pc' = "loop"
    /\ UNCHANGED <<outExists, outFiles, customExists, custom, list_files, line_num,
                   all_rules, rule_set_count, domain_set_count, rule_set_info, ret,
                   fetched, ioLog, clears, summary, fn_arg, fn_ret>>

\* main, lines 461-462
NextFile ==
    /\ pc = "returned"
    /\ success_count' = IF ret = "True" THEN success_count + 1 ELSE success_count
    /\ file_idx' = file_idx + 1
    /\ pc' = "loop"
    /\ UNCHANGED <<outExists, outFiles, customExists, custom, list_files, line_num,
                   all_rules, rule_set_count, domain_set_count, rule_set_info, ret,
                   fetched, ioLog, clears, summary, fn_arg, fn_ret>>

\* main, lines 464-467: the final summary
Finish ==
    /\ pc = "loop"
    /\ file_idx > Len(list_files)
    /\ summary' = <<success_count, Len(list_files)>>
    /\ pc' = "done"
    /\ UNCHANGED <<outExists, outFiles, customExists, custom, list_files, file_idx,
                   success_count, line_num, all_rules, rule_set_count, domain_set_count,
                   rule_set_info, ret, fetched, ioLog, clears, fn_arg, fn_ret>>

Next ==
    \/ ClearOutput
    \/ InputMissing
    \/ InputEmpty
    \/ FindFiles
    \/ StartFile
    \/ ReadLine
    \/ ReadFail
    \/ WriteOk
    \/ WriteFailOpen
    \/ WriteFailPartial
    \/ NextFile
    \/ Finish

Spec == Init /\ [][Next]_vars

SpecLine == InitLine /\ [][Next]_vars

SpecMain == InitMain /\ [][Next]_vars

(***************************************************************************)
(* The functions on their own: the argument is drawn by the initial state, *)
(* the action applies the function.                                        *)
(***************************************************************************)
InitIdle ==
    /\ customExists = FALSE
    /\ custom = <<>>
    /\ outExists = FALSE
    /\ outFiles = <<>>
    /\ list_files = <<>>
    /\ file_idx = 0
    /\ success_count = 0
    /\ line_num = 0
    /\ all_rules = <<>>
    /\ rule_set_count = 0
    /\ domain_set_count = 0
    /\ rule_set_info = <<>>
    /\ ret = "none"
    /\ fetched = <<>>
    /\ ioLog = <<>>
    /\ clears = <<>>
    /\ summary = <<>>

InitNoResolve ==
    /\ pc = "add_no_resolve"
    /\ InitIdle
    /\ fn_arg \in Rules
    /\ fn_ret = <<>>

\* add_no_resolve applied to the rule, then to its own result
ApplyNoResolve ==
    /\ pc = "add_no_resolve"
    /\ Len(fn_ret) < 2
    /\ fn_ret' = Append(fn_ret, add_no_resolve(IF fn_ret = <<>> THEN fn_arg
                                                ELSE fn_ret[Len(fn_ret)]))
    /\ UNCHANGED <<pc, outExists, outFiles, customExists, custom, list_files, file_idx,
                   success_count, line_num, all_rules, rule_set_count, domain_set_count,
                   rule_set_info, ret, fetched, ioLog, clears, summary, fn_arg>>

SpecNoResolve == InitNoResolve /\ [][ApplyNoResolve]_vars

InitDownload ==
    /\ pc = "download_remote_rules"
    /\ InitIdle
    /\ fn_arg \in [response : {FetchFailed} \cup
                                 {FetchOk(doc) : doc \in BoundedSeq(DocLines, MaxDocLines)},
                    rule_type : {"RULE-SET", "DOMAIN-SET"}]
    /\ fn_ret = <<>>

\* download_remote_rules(url, rule_type), given the answer of requests.get
CallDownload ==
    /\ pc = "download_remote_rules"
    /\ fn_ret = <<>>
    /\ fn_ret' = <<download_remote_rules(fn_arg.response, fn_arg.rule_type)>>
    /\ UNCHANGED <<pc, outExists, outFiles, customExists, custom, list_files, file_idx,
                   success_count, line_num, all_rules, rule_set_count, domain_set_count,
                   rule_set_info, ret, fetched, ioLog, clears, summary, fn_arg>>

SpecDownload == InitDownload /\ [][CallDownload]_vars

(***************************************************************************)
(* The claims.                                                             *)
(***************************************************************************)
\* process_list_file has returned True for the current file
ReturnedTrue == pc = "returned" /\ ret = "True"

\* the rule body of the output file of the current file
Body == outFiles[output_file].body

\* the header of the output file of the current file
WrittenHeader == outFiles[output_file].header[1]

E2EBodyClaimed ==
    << <<"DOMAIN", ",", "example.com">>,
       <<"IP-CIDR", ",", "10.0.0.0/8", ",", "PROXY", ",", "no-resolve">> >>

E2EBody == E2EBodyClaimed \o << <<"DOMAIN", ",", "foo.com", ",", "PROXY">> >>

E2ESources ==
    << [idx |-> 1, url |-> Url1, downloaded |-> 2, with_total |-> TRUE, source_total |-> 2] >>

\* the end-to-end run: the two-line input file, the fetch answering with Doc1
E2ERun == ReturnedTrue /\ custom[input_file] = E2EFile /\ fetched[2] = FetchOk(Doc1)

\* C1 as stated: in the end-to-end run the rule body is exactly the two lines
\* DOMAIN,example.com and IP-CIDR,10.0.0.0/8,PROXY,no-resolve, the header reports
\* Total: 2 and exactly one source entry, Downloaded: 2 rules (Source Total: 2).
C1_AsStated ==
    E2ERun => /\ Body = E2EBodyClaimed
              /\ WrittenHeader.total = 2
              /\ WrittenHeader.sources = E2ESources

\* C1, amended: in the end-to-end run the rule body is exactly the three lines
\* DOMAIN,example.com, IP-CIDR,10.0.0.0/8,PROXY,no-resolve and DOMAIN,foo.com,PROXY
\* (the fetched DOMAIN line is kept, policy included), the header reports Total: 3
\* and exactly one source entry, Downloaded: 2 rules (Source Total: 2).
C1_EndToEnd ==
    E2ERun => /\ Body = E2EBody
              /\ WrittenHeader.total = 3
              /\ WrittenHeader.sources = E2ESources

C1_Witness == E2ERun /\ Len(Body) = 3

\* the line is neither blank nor a comment and holds no comma (kind OTHER)
IsOther(raw) == strip(raw) # <<>> /\ strip(raw)[1] # "#" /\ ~Contains(strip(raw), ",")

\* C2 as stated: every non-blank, non-comment line without a comma of the input
\* file appears, as its trimmed text, in the rule body written for the file (the
\* claim also fixes its position; already its presence fails).
C2_AsStated ==
    ReturnedTrue =>
        \A i \in DOMAIN custom[input_file] :
            IsOther(custom[input_file][i]) =>
                \E j \in DOMAIN Body : Body[j] = strip(custom[input_file][i])

DomainFamily == {<<"DOMAIN">>, <<"DOMAIN-SUFFIX">>, <<"DOMAIN-KEYWORD">>}

\* C3: a literal line whose text before the first comma is exactly DOMAIN,
\* DOMAIN-SUFFIX or DOMAIN-KEYWORD and that has at least one further field is
\* emitted as exactly "kind,field1", however many fields follow.
C3_DomainFamilyTruncated ==
    ReturnedTrue =>
        \A lead \in Leads, kind \in DomainFamily, fields \in BoundedSeq(LineFields, MaxFields) :
            (fields # <<>> /\ custom[input_file] = <<MkLine(lead, kind, fields)>>)
                => Body = <<kind \o <<",">> \o fields[1]>>

C3_Witness ==
    /\ ReturnedTrue
    /\ custom[input_file] =
         <<MkLine(<<" ">>, <<"DOMAIN-SUFFIX">>, << <<"example.com">>, <<"PROXY">>, <<"PROXY">> >>)>>
    /\ Body = << <<"DOMAIN-SUFFIX", ",", "example.com">> >>

NoResolveWords == {"no-resolve", "NO-RESOLVE", "No-Resolve"}

\* the text no-resolve occurs in the rule, in whatever case
Carries(rule) == \E i \in DOMAIN rule : rule[i] \in NoResolveWords

\* the kind of a rule that holds a comma: the trimmed text before its first comma
KindText(rule) ==
    LET c == CHOOSE i \in DOMAIN rule : rule[i] = "," /\ \A j \in 1..(i - 1) : rule[j] # ","
    IN  strip(SubSeq(rule, 1, c - 1))

IsIPRule(rule) ==
    /\ \E i \in DOMAIN rule : rule[i] = ","
    /\ KindText(rule) \in {<<"IP-CIDR">>, <<"IP-CIDR6">>, <<"GEOIP">>, <<"IP-ASN">>}

Survives(line) == strip(line) # <<>> /\ strip(line)[1] # "#"

\* what C5 says a surviving line of a DOMAIN-SET becomes
Promoted(line) ==
    IF \E i \in DOMAIN line : line[i] = "," THEN strip(line)
    ELSE <<"DOMAIN-SUFFIX", ",">> \o strip(line)

\* C5: for a DOMAIN-SET whose fetch succeeds, download_remote_rules returns one rule
\* per non-blank, non-comment fetched line, in fetched order: the trimmed line itself
\* if it holds a comma (no ",no-resolve" is added, IP kinds included), else
\* "DOMAIN-SUFFIX," followed by the trimmed line.
C5_DomainSet ==
    (pc = "download_remote_rules" /\ fn_ret # <<>>
        /\ fn_arg.rule_type = "DOMAIN-SET" /\ fn_arg.response.ok) =>
        LET kept == SelectSeq(fn_arg.response.text, Survives)
        IN  fn_ret[1].rules = [i \in DOMAIN kept |-> Promoted(kept[i])]

C5_Witness ==
    /\ pc = "download_remote_rules"
    /\ fn_arg.rule_type = "DOMAIN-SET"
    /\ fn_arg.response = FetchOk(<< <<" ", "baz.org", " ">>, <<"IP-CIDR", ",", "1.1.1.1/32">> >>)
    /\ fn_ret = << [rules |-> << <<"DOMAIN-SUFFIX", ",", "baz.org">>,
                                 <<"IP-CIDR", ",", "1.1.1.1/32">> >>,
                    original_total |-> 0] >>

IsRuleSetRef(raw) == startswith(strip(raw), <<"RULE-SET", ",">>)
IsDomainSetRef(raw) == startswith(strip(raw), <<"DOMAIN-SET", ",">>)

\* what the first n lines give, the references whose fetch failed left out
RECURSIVE WithoutFailed(_, _, _)
WithoutFailed(lines, answers, n) ==
    IF n = 0 THEN <<>>
    ELSE WithoutFailed(lines, answers, n - 1)
         \o (IF answers[n] = FetchFailed THEN <<>> ELSE process_line(lines[n], answers[n]).rules)

\* C6: a reference whose fetch fails adds no rule, is not counted in rule_set_count
\* or domain_set_count and gets no entry in rule_set_info, while all the other lines
\* of the file, before and after it, give what they give, and the file is written
\* and process_list_file returns True unless reading or writing fails.
C6_FailedFetch ==
    pc \in {"reading", "returned"} =>
        LET lines == custom[input_file]
            fetchedOk == {i \in 1..line_num : fetched[i].ok}
        IN  /\ all_rules = WithoutFailed(lines, fetched, line_num)
            /\ rule_set_count <= Cardinality({i \in fetchedOk : IsRuleSetRef(lines[i])})
            /\ domain_set_count <= Cardinality({i \in fetchedOk : IsDomainSetRef(lines[i])})
            /\ Len(rule_set_info) = rule_set_count + domain_set_count
            /\ (pc = "returned" /\ ioLog[Len(ioLog)].read = "ok" /\ ioLog[Len(ioLog)].write = "ok")
                   => (ret = "True" /\ Body = all_rules)
            /\ (pc = "returned" /\ ret = "False")
                   => (ioLog[Len(ioLog)].read = "failed" \/ ioLog[Len(ioLog)].write = "failed")

C6_Witness ==
    /\ ReturnedTrue
    /\ custom[input_file] = << <<"DOMAIN", ",", "example.com", ",", "PROXY">>,
                               <<"RULE-SET", ",">> \o Url1 \o <<",", "PROXY">>,
                               <<"IP-CIDR", ",", "10.0.0.0/8", ",", "PROXY">> >>
    /\ fetched[2] = FetchFailed
    /\ Body = E2EBodyClaimed
    /\ rule_set_count = 0
    /\ rule_set_info = <<>>

\* the segment C7 gives a directive: nothing for a blank or a comment, the rules it
\* resolved to for a reference, its single normalized rule for a literal line
Segment(raw, answer) ==
    IF ~Survives(raw) THEN <<>>
    ELSE IF IsRuleSetRef(raw) THEN download_remote_rules(answer, "RULE-SET").rules
    ELSE IF IsDomainSetRef(raw) THEN download_remote_rules(answer, "DOMAIN-SET").rules
    ELSE IF IsOther(raw) THEN <<strip(raw)>>
    ELSE literal_rules(strip(raw))

RECURSIVE Segments(_, _, _)
Segments(lines, answers, n) ==
    IF n = 0 THEN <<>>
    ELSE Segments(lines, answers, n - 1) \o Segment(lines[n], answers[n])

\* C7 as stated: the rule body written for a file is the concatenation, in line
\* order, of one segment per directive: the single normalized rule of a literal
\* line, the whole sequence of rules a reference resolved to.
C7_AsStated ==
    ReturnedTrue => Body = Segments(custom[input_file], fetched, Len(custom[input_file]))

\* the file holds nothing, or the header and the first rules of full
IsTruncated(file, full) ==
    /\ ~file.stale
    /\ \/ file.header = <<>> /\ file.body = <<>>
       \/ /\ file.header = full.header
          /\ \E k \in 0..Len(full.body) : file.body = SubSeq(full.body, 1, k)

\* C8 as stated: at the end of a run, the output file of every input file that was
\* read holds the complete header and every rule, or the write failed and nothing
\* written for the file is at the output path.
C8_AsStated ==
    pc = "done" =>
        \A k \in DOMAIN ioLog :
            ioLog[k].read = "ok" =>
                \/ /\ ioLog[k].file \in DOMAIN outFiles
                   /\ outFiles[ioLog[k].file] = ioLog[k].intended[1]
                \/ /\ ioLog[k].write = "failed"
                   /\ \/ ioLog[k].file \notin DOMAIN outFiles
                      \/ /\ outFiles[ioLog[k].file].header = <<>>
                         /\ outFiles[ioLog[k].file].body = <<>>

\* C8, amended: at the end of a run, the output file of every input file for which
\* process_list_file returned True holds the complete header and every rule; a file
\* that could not be read has no output file; a file whose write failed has no
\* output file or a truncated one, holding a prefix of the header and rules.
C8_WholeOrTruncated ==
    pc = "done" =>
        \A k \in DOMAIN ioLog :
            /\ ioLog[k].write = "ok" =>
                   /\ ioLog[k].file \in DOMAIN outFiles
                   /\ outFiles[ioLog[k].file] = ioLog[k].intended[1]
            /\ ioLog[k].read = "failed" => ioLog[k].file \notin DOMAIN outFiles
            /\ ioLog[k].write = "failed" =>
                   \/ ioLog[k].file \notin DOMAIN outFiles
                   \/ IsTruncated(outFiles[ioLog[k].file], ioLog[k].intended[1])

C8_Witness ==
    /\ pc = "done"
    /\ \E k \in DOMAIN ioLog :
         /\ ioLog[k].write = "failed"
         /\ ioLog[k].file \in DOMAIN outFiles
         /\ outFiles[ioLog[k].file].header # <<>>
         /\ Len(outFiles[ioLog[k].file].body) = 1
         /\ Len(ioLog[k].intended[1].body) = 3
    /\ \E k \in DOMAIN ioLog : ioLog[k].write = "ok"

\* C9: a file that cannot be read or written is the only one marked failed; every
\* .list file is processed exactly once, in sorted order; the summary reports the
\* number of files read and written successfully, out of the number found.
C9_Summary ==
    pc = "done" /\ summary # <<>> =>
        /\ Len(ioLog) = Cardinality(glob(custom))
        /\ \A n \in glob(custom) : Cardinality({k \in DOMAIN ioLog : ioLog[k].file = n}) = 1
        /\ \A k \in 1..(Len(ioLog) - 1) : StemRank(ioLog[k].file) < StemRank(ioLog[k + 1].file)
        /\ summary[1] = Cardinality({k \in DOMAIN ioLog :
                                       ioLog[k].read = "ok" /\ ioLog[k].write = "ok"})
        /\ summary[2] = Cardinality(glob(custom))

C9_Witness ==
    /\ pc = "done"
    /\ Len(ioLog) = 2
    /\ ioLog[1].read = "failed"
    /\ ioLog[2].write = "ok"
    /\ summary = <<1, 2>>

\* C10: output/ is removed (if it exists) and recreated exactly once in a run,
\* before any input file is processed; at the end of the run, also when the input
\* directory is missing or holds no .list file (no file is then processed and
\* nothing is written), output/ holds only files written in this run.
C10_CleanSlate ==
    (pc \notin {"add_no_resolve", "download_remote_rules"}) =>
        /\ Len(clears) <= 1
        /\ pc # "start" => Len(clears) = 1
        /\ Len(clears) = 0 => (ioLog = <<>> /\ pc = "start")
        /\ pc = "done" =>
              /\ outExists
              /\ \A n \in DOMAIN outFiles :
                     /\ ~outFiles[n].stale
                     /\ \E k \in DOMAIN ioLog : ioLog[k].file = n /\ ioLog[k].read = "ok"
              /\ (~customExists \/ glob(custom) = {}) => (ioLog = <<>> /\ DOMAIN outFiles = {})

C10_Witness ==
    /\ pc = "done"
    /\ clears = << {<<"old", "list">>} >>
    /\ DOMAIN outFiles = {ListName(1), ListName(2)}

====
